---- MODULE Spec2Model ----
\* CostCritic of nav2_mppi_controller (src/critics/cost_critic.cpp): the
\* circumscribed-cost cache, the collision predicate and the batch scoring
\* loop, as a state machine.
\*
\* Numbers.  The code computes in float; the model computes the same
\* expressions in exact rational arithmetic ([n |-> .., d |-> ..], reduced,
\* d > 0), so rounding is abstracted while the order of the operations
\* (weight, normalisation, power) is kept.  Grid costs are the unsigned char
\* values of the costmap, integers 0..255.  A circumscribed radius is a double
\* in the code and is cached as a float: radii are integers here and ToFloat
\* is the (non-injective) narrowing.
EXTENDS Integers, Sequences, FiniteSets, TLC

VARIABLES
  \* parameters read by initialize()
  consider_footprint, power, weight, critical_cost, collision_cost, enabled,
  \* members
  possible_collision_cost, is_tracking_unknown,
  circumscribed_radius, circumscribed_cost,
  \* the costmap, as seen through its interface
  costmap_radius, inflation_present, costmap_tracking_unknown,
  \* the caller's CriticData (costs and fail_flag are in/out)
  data_costs, fail_flag,
  \* position of the critic's life cycle
  pc,
  \* record of the last score() call that ran: its inputs and per-trajectory marks
  last_score,
  \* record of the last findCircumscribedCost() call, and the previous return value
  last_find, prev_ret,
  \* record of the last inCollision() call
  last_check,
  \* concurrent findCircumscribedCost() calls: per-thread position and locals
  t_pc, t_radius, t_result, t_ret

vars == <<consider_footprint, power, weight, critical_cost, collision_cost, enabled,
          possible_collision_cost, is_tracking_unknown,
          circumscribed_radius, circumscribed_cost,
          costmap_radius, inflation_present, costmap_tracking_unknown,
          data_costs, fail_flag, pc, last_score, last_find, prev_ret, last_check,
          t_pc, t_radius, t_result, t_ret>>

params == <<consider_footprint, power, weight, critical_cost, collision_cost, enabled>>
cache == <<circumscribed_radius, circumscribed_cost>>
costmap == <<costmap_radius, inflation_present, costmap_tracking_unknown>>
threads == <<t_pc, t_radius, t_result, t_ret>>

-----------------------------------------------------------------------------
\* Costmap cost values used by the critic.
NO_INFORMATION == 255
LETHAL_OBSTACLE == 254
INSCRIBED_INFLATED_OBSTACLE == 253
\* "In free space" / "no usable circumscribed cost": the 1.0f threshold.
MinSignificantCost == 1
\* weight_ /= 254.0f
WeightNormalizer == 254

\* Bounds of the model.
MaxSamples == 3        \* trajectories * timesteps of a batch
MaxRadius == 4         \* circumscribed radii range over 1..MaxRadius
NumThreads == 2        \* concurrent callers of findCircumscribedCost()

\* Parameter values the checks range over: weights 1/2 and 2 after
\* normalisation, costs small enough for exact arithmetic.  Weights and
\* costs are non-negative, as the critic's parameters are meant to be.
CostPowers == {0, 1, 2}
CostWeights == {127, 508}
CriticalCosts == {30}
CollisionCosts == {97}

None == [none |-> TRUE]

-----------------------------------------------------------------------------
\* Exact arithmetic standing for the float expressions of score().
Abs(x) == IF x < 0 THEN 0 - x ELSE x

RECURSIVE GCD(_, _)
GCD(a, b) == IF b = 0 THEN a ELSE GCD(b, a % b)

Rat(n, d) == LET g == GCD(Abs(n), d) IN [n |-> n \div g, d |-> d \div g]

RatInt(k) == [n |-> k, d |-> 1]

RatAdd(a, b) == Rat(a.n * b.d + b.n * a.d, a.d * b.d)

RatSub(a, b) == Rat(a.n * b.d - b.n * a.d, a.d * b.d)

RatMul(a, b) == Rat(a.n * b.n, a.d * b.d)

RatDivInt(a, k) == Rat(a.n, a.d * k)

RECURSIVE RatPow(_, _)
RatPow(a, p) == IF p = 0 THEN RatInt(1) ELSE RatMul(a, RatPow(a, p - 1))

RatLeq(a, b) ==
  LET g == GCD(a.d, b.d) IN a.n * (b.d \div g) <= b.n * (a.d \div g)

-----------------------------------------------------------------------------
\* The costmap's collaborators, at their interface.

\* static_cast<float>(circum_radius): two neighbouring doubles share a float.
ToFloat(r) == 2 * ((r + 1) \div 2)

Radii == 1..MaxRadius

\* InflationLayer::computeCost at the circumscribed radius: inscribed cost at
\* the inscribed radius, decaying to nothing beyond the inflation radius.
ComputeCost(r) ==
  CASE r = 1 -> INSCRIBED_INFLATED_OBSTACLE
    [] r = 2 -> 100
    [] r = 3 -> 20
    [] OTHER -> 0

\* The radii the footprint takes while batches are scored.
ScoreRadii == {2, 3}

\* One trajectory sample as the costmap answers for it: whether worldToMap
\* succeeds, the cost of the cell under the pose, and what the footprint
\* collision checker would return at the pose.  The checker walks the
\* footprint's outline, so its answer is not tied to the cost under the
\* centre of the pose.
Sample(inGrid, cost, fp) == [inGrid |-> inGrid, cost |-> cost, fp |-> fp]

Samples ==
  { Sample(TRUE, 0, LETHAL_OBSTACLE),
    Sample(TRUE, 20, LETHAL_OBSTACLE),
    Sample(TRUE, INSCRIBED_INFLATED_OBSTACLE, INSCRIBED_INFLATED_OBSTACLE),
    Sample(TRUE, LETHAL_OBSTACLE, 0),
    Sample(FALSE, 0, LETHAL_OBSTACLE) }

\* The batches score() is called with: N trajectories of T samples each.
Batches(N) ==
  IF N = 0 THEN { <<>> }
  ELSE UNION { [1..N -> [1..T -> Samples]] : T \in 1..(MaxSamples \div N) }

\* data.costs as the caller hands it over: trajectory i already carries i - 1.
InitialCosts(N) == [i \in 1..N |-> RatInt(i - 1)]

-----------------------------------------------------------------------------
\* findCircumscribedCost(): the new cache, the value returned, and whether the
\* inflation layer was looked up / its cost function evaluated.
FindCircumscribedCostNoEarlyReturn(cached_radius, cached_cost, radius, present) ==
  LET result == IF present THEN ComputeCost(radius) ELSE 0 - 1
  IN [radius |-> ToFloat(radius), cost |-> result, ret |-> result,
      lookup |-> TRUE, computed |-> present]

FindCircumscribedCost(cached_radius, cached_cost, radius, present) ==
  IF ToFloat(radius) = cached_radius
  THEN [radius |-> cached_radius, cost |-> cached_cost, ret |-> cached_cost,
        lookup |-> FALSE, computed |-> FALSE]
  ELSE LET result == IF present THEN ComputeCost(radius) ELSE 0 - 1
       IN [radius |-> ToFloat(radius), cost |-> result, ret |-> result,
           lookup |-> TRUE, computed |-> present]

\* What is remembered of one findCircumscribedCost() call: the radius the
\* costmap reported, the cache it met, what it did and what it returned.
FindRecord(f) ==
  [observed |-> costmap_radius, cached_radius |-> circumscribed_radius,
   lookup |-> f.lookup, computed |-> f.computed, ret |-> f.ret]

-----------------------------------------------------------------------------
\* inCollision()

\* The condition under which the footprint collision checker is consulted.
FootprintCheckedStrict(cost, cf, pcc) ==
  cf /\ (cost > pcc \/ pcc < MinSignificantCost)

FootprintChecked(cost, cf, pcc) ==
  cf /\ (cost >= pcc \/ pcc < MinSignificantCost)

\* static_cast<unsigned char>(cost) of a non-negative integral cost
ToUChar(c) == c % 256

\* The switch over the sentinel values.
ClassifyInscribedAlways(c, cf, tracking) ==
  CASE ToUChar(c) = LETHAL_OBSTACLE -> TRUE
    [] ToUChar(c) = INSCRIBED_INFLATED_OBSTACLE -> TRUE
    [] ToUChar(c) = NO_INFORMATION -> IF tracking THEN FALSE ELSE TRUE
    [] OTHER -> FALSE

Classify(c, cf, tracking) ==
  CASE ToUChar(c) = LETHAL_OBSTACLE -> TRUE
    [] ToUChar(c) = INSCRIBED_INFLATED_OBSTACLE -> IF cf THEN FALSE ELSE TRUE
    [] ToUChar(c) = NO_INFORMATION -> IF tracking THEN FALSE ELSE TRUE
    [] OTHER -> FALSE

\* The cost that is classified.
EffectiveCost(cost, fp, cf, pcc) ==
  IF FootprintChecked(cost, cf, pcc) THEN fp ELSE cost

InCollision(cost, fp, cf, pcc, tracking) ==
  Classify(EffectiveCost(cost, fp, cf, pcc), cf, tracking)

\* What is remembered of one inCollision() call: its arguments, the members it
\* read, whether it consulted the footprint checker, the cost it classified
\* and its answer.
CheckRecord(cost, fp, cf, pcc, tracking) ==
  [cost |-> cost, fp |-> fp, pcc |-> pcc, tracking |-> tracking,
   fp_called |-> FootprintChecked(cost, cf, pcc),
   classified |-> EffectiveCost(cost, fp, cf, pcc),
   result |-> InCollision(cost, fp, cf, pcc, tracking)]

-----------------------------------------------------------------------------
\* score()

NeverDisabled(en) == FALSE

\* if (!enabled_) return;
IsDisabled(en) == ~en

\* The cost of the cell under the pose; NO_INFORMATION outside the grid.
PoseCost(s) == IF ~s.inGrid THEN NO_INFORMATION ELSE s.cost

InFreeSpaceNever(pose_cost) == pose_cost < 0

\* if (pose_cost < 1.0f) continue;
InFreeSpace(pose_cost) == pose_cost < MinSignificantCost

StepCostNearSuppressesAll(pose_cost, crit, near) ==
  IF near THEN 0
  ELSE IF pose_cost >= INSCRIBED_INFLATED_OBSTACLE THEN crit
  ELSE pose_cost

\* What one step of the inner loop adds for a sample that is not a collision.
StepCost(pose_cost, crit, near) ==
  IF pose_cost >= INSCRIBED_INFLATED_OBSTACLE THEN crit
  ELSE IF ~near THEN pose_cost
  ELSE 0

\* The inner loop over the timesteps of one trajectory, from timestep j on,
\* with acc the repulsive cost accumulated so far.
RECURSIVE ScanTrajectory(_, _, _, _, _, _, _, _)
ScanTrajectory(traj, j, acc, cf, pcc, tracking, crit, near) ==
  IF j > Len(traj) THEN [collide |-> FALSE, cost |-> acc]
  ELSE LET pose_cost == PoseCost(traj[j])
       IN IF InFreeSpace(pose_cost)
          THEN ScanTrajectory(traj, j + 1, acc, cf, pcc, tracking, crit, near)
          ELSE IF InCollision(pose_cost, traj[j].fp, cf, pcc, tracking)
          THEN [collide |-> TRUE, cost |-> acc]
          ELSE ScanTrajectory(traj, j + 1, acc + StepCost(pose_cost, crit, near),
                              cf, pcc, tracking, crit, near)

RepulsiveCostAccumulated(scan, coll) ==
  IF scan.collide THEN scan.cost + coll ELSE scan.cost

\* repulsive_cost[i] after the inner loop.
RepulsiveCost(scan, coll) == IF scan.collide THEN coll ELSE scan.cost

\* xt::pow(weight_ * repulsive_cost / traj_len, power_), one element.
ScoreTerm(w, repulsive, traj_len, p) ==
  RatPow(RatDivInt(RatMul(w, RatInt(repulsive)), traj_len), p)

AnyCollide(scans) == \E i \in DOMAIN scans : scans[i].collide

\* all_trajectories_collide after the outer loop.
AllCollide(scans) == \A i \in DOMAIN scans : scans[i].collide

-----------------------------------------------------------------------------
\* The state after construction: no parameter read yet, the cache members at
\* their in-class initialisers (radius 0, cost 0, as declared in
\* cost_critic.hpp), the caller's CriticData prepared for a batch of N
\* trajectories.  No radius of the model narrows to 0, so the first
\* findCircumscribedCost() call always misses the cache.
Constructed(N, radii) ==
  /\ consider_footprint = FALSE
  /\ power = 0
  /\ weight = RatInt(0)
  /\ critical_cost = 0
  /\ collision_cost = 0
  /\ enabled = TRUE
  /\ possible_collision_cost = 0
  /\ is_tracking_unknown = TRUE
  /\ circumscribed_radius = 0
  /\ circumscribed_cost = 0
  /\ costmap_radius \in radii
  /\ inflation_present \in BOOLEAN
  /\ costmap_tracking_unknown \in BOOLEAN
  /\ data_costs = InitialCosts(N)
  /\ fail_flag \in BOOLEAN
  /\ pc = "constructed"
  /\ last_score = None
  /\ last_find = None
  /\ prev_ret = None
  /\ last_check = None
  /\ t_pc = <<>>
  /\ t_radius = <<>>
  /\ t_result = <<>>
  /\ t_ret = <<>>

Init == \E N \in 0..MaxSamples : Constructed(N, ScoreRadii)

\* initialize(): read the parameters, normalise the weight, compute the
\* circumscribed cost for the first time.
Initialize(cf, p, cw, crit, coll, en) ==
  /\ pc = "constructed"
  /\ consider_footprint' = cf
  /\ power' = p
  /\ weight' = Rat(cw, WeightNormalizer)
  /\ critical_cost' = crit
  /\ collision_cost' = coll
  /\ enabled' = en
  /\ LET f == FindCircumscribedCost(circumscribed_radius, circumscribed_cost,
                                    costmap_radius, inflation_present)
     IN /\ circumscribed_radius' = f.radius
        /\ circumscribed_cost' = f.cost
        /\ possible_collision_cost' = f.ret
        /\ last_find' = FindRecord(f)
        /\ prev_ret' = IF last_find = None THEN None ELSE [ret |-> last_find.ret]
  /\ pc' = "active"
  /\ UNCHANGED <<is_tracking_unknown, costmap, data_costs, fail_flag,
                 last_score, last_check, threads>>

\* The robot's footprint changes between two cycles (dynamic footprint).
FootprintChanged(r) ==
  /\ pc = "active"
  /\ r # costmap_radius
  /\ costmap_radius' = r
  /\ UNCHANGED <<params, possible_collision_cost, is_tracking_unknown, cache,
                 inflation_present, costmap_tracking_unknown, data_costs, fail_flag,
                 pc, last_score, last_find, prev_ret, last_check, threads>>

\* The body of score(data) past the enabled_ test, with the trajectories of
\* data and whether the robot is within near_goal_distance_ of the goal.
ScoreBatch(trajectories, near_goal) ==
  LET tracking == costmap_tracking_unknown
      f == FindCircumscribedCost(circumscribed_radius, circumscribed_cost,
                                 costmap_radius, inflation_present)
      pcc == IF consider_footprint THEN f.ret ELSE possible_collision_cost
      scans == [i \in DOMAIN trajectories |->
                  ScanTrajectory(trajectories[i], 1, 0, consider_footprint,
                                 pcc, tracking, critical_cost, near_goal)]
  IN /\ is_tracking_unknown' = tracking
     /\ IF consider_footprint
        THEN /\ circumscribed_radius' = f.radius
             /\ circumscribed_cost' = f.cost
             /\ last_find' = FindRecord(f)
             /\ prev_ret' = IF last_find = None THEN None ELSE [ret |-> last_find.ret]
        ELSE UNCHANGED <<cache, last_find, prev_ret>>
     /\ possible_collision_cost' = pcc
     /\ data_costs' =
          [i \in DOMAIN data_costs |->
             RatAdd(data_costs[i],
                    ScoreTerm(weight, RepulsiveCost(scans[i], collision_cost),
                              Len(trajectories[i]), power))]
     /\ fail_flag' = AllCollide(scans)
     /\ last_score' = [trajectories |-> trajectories, near_goal |-> near_goal,
                       costs_before |-> data_costs,
                       trajectory_collide |-> [i \in DOMAIN scans |-> scans[i].collide]]

\* score(data): nothing is read or written when the critic is disabled.
Score ==
  /\ pc = "active"
  /\ pc' = "scored"
  /\ IF IsDisabled(enabled)
     THEN UNCHANGED <<possible_collision_cost, is_tracking_unknown, cache,
                      data_costs, fail_flag, last_score, last_find, prev_ret>>
     ELSE \E trajectories \in Batches(Len(data_costs)), near_goal \in BOOLEAN :
            ScoreBatch(trajectories, near_goal)
  /\ UNCHANGED <<params, costmap, last_check, threads>>

\* The optimizer starts the next control cycle: a fresh CriticData for a
\* batch of N trajectories, its fail flag cleared.
NextCycle(N) ==
  /\ pc = "scored"
  /\ pc' = "active"
  /\ data_costs' = InitialCosts(N)
  /\ fail_flag' = FALSE
  /\ last_score' = None
  /\ UNCHANGED <<params, possible_collision_cost, is_tracking_unknown, cache, costmap,
                 last_find, prev_ret, last_check, threads>>

\* One inCollision() call on a sample that is not in free space, as the inner
\* loop of score() makes it, recorded.
CheckCall(cost, fp) ==
  /\ pc = "scored"
  /\ ~IsDisabled(enabled)
  /\ last_check' = CheckRecord(cost, fp, consider_footprint, possible_collision_cost,
                               is_tracking_unknown)
  /\ UNCHANGED <<params, possible_collision_cost, is_tracking_unknown, cache, costmap,
                 data_costs, fail_flag, pc, last_score, last_find, prev_ret, threads>>

Next ==
  \/ \E cf \in BOOLEAN, p \in CostPowers, cw \in CostWeights,
        crit \in CriticalCosts, coll \in CollisionCosts, en \in BOOLEAN :
       Initialize(cf, p, cw, crit, coll, en)
  \/ \E r \in ScoreRadii : FootprintChanged(r)
  \/ Score
  \/ \E N \in 0..MaxSamples : NextCycle(N)

\* One critic scoring one batch per control cycle.
Spec == Init /\ [][Next]_vars

-----------------------------------------------------------------------------
\* The cache and the predicate, call by call: cycles of score() on the empty
\* batch while the footprint changes, and single inCollision() calls.
CheckCosts == {1, 20, 100, 252, 253, 254, 255}
FootprintCosts == {0, 100, 253, 254, 255}

InitCalls == Constructed(0, Radii)

NextCalls ==
  \/ \E cf \in BOOLEAN, crit \in CriticalCosts, coll \in CollisionCosts :
       Initialize(cf, 1, WeightNormalizer, crit, coll, TRUE)
  \/ \E r \in Radii : FootprintChanged(r)
  \/ Score
  \/ NextCycle(0)
  \/ \E cost \in CheckCosts, fp \in FootprintCosts : CheckCall(cost, fp)

SpecCalls == InitCalls /\ [][NextCalls]_vars

-----------------------------------------------------------------------------
\* findCircumscribedCost() called from several threads on one critic.  The
\* function takes no lock: every read and write of a member is a step of its
\* own, and the steps of the callers interleave.
Threads == 1..NumThreads

\* Radii that are exactly representable as floats, so that a cache hit can
\* only be a hit on the same radius.
ConcurrentRadii == {2, 4}

\* The cost findCircumscribedCost() computes for a radius.
CostFor(r) == IF inflation_present THEN ComputeCost(r) ELSE 0 - 1

InitConcurrent ==
  /\ consider_footprint = TRUE
  /\ power = 1
  /\ weight = RatInt(1)
  /\ critical_cost \in CriticalCosts
  /\ collision_cost \in CollisionCosts
  /\ enabled = TRUE
  /\ possible_collision_cost = 0
  /\ is_tracking_unknown = TRUE
  /\ circumscribed_radius = 0
  /\ circumscribed_cost = 0
  /\ costmap_radius \in ConcurrentRadii
  /\ inflation_present \in BOOLEAN
  /\ costmap_tracking_unknown = TRUE
  /\ data_costs = <<>>
  /\ fail_flag = FALSE
  /\ pc = "concurrent"
  /\ last_score = None
  /\ last_find = None
  /\ prev_ret = None
  /\ last_check = None
  /\ t_pc = [t \in Threads |-> "idle"]
  /\ t_radius = [t \in Threads |-> 0]
  /\ t_result = [t \in Threads |-> 0]
  /\ t_ret = [t \in Threads |-> 0]

sequential == <<params, possible_collision_cost, is_tracking_unknown,
                data_costs, fail_flag, pc, last_score, last_find, prev_ret, last_check>>

\* const double circum_radius = ...->getCircumscribedRadius();
ReadRadius(t) ==
  /\ t_pc[t] = "idle"
  /\ t_radius' = [t_radius EXCEPT ![t] = costmap_radius]
  /\ t_pc' = [t_pc EXCEPT ![t] = "compare"]
  /\ UNCHANGED <<sequential, cache, costmap, t_result, t_ret>>

\* if (static_cast<float>(circum_radius) == circumscribed_radius_)
CompareRadius(t) ==
  /\ t_pc[t] = "compare"
  /\ t_pc' = [t_pc EXCEPT ![t] = IF ToFloat(t_radius[t]) = circumscribed_radius
                                  THEN "hit" ELSE "miss"]
  /\ UNCHANGED <<sequential, cache, costmap, t_radius, t_result, t_ret>>

\* return circumscribed_cost_;   (the early return)
ReturnCached(t) ==
  /\ t_pc[t] = "hit"
  /\ t_ret' = [t_ret EXCEPT ![t] = circumscribed_cost]
  /\ t_pc' = [t_pc EXCEPT ![t] = "done"]
  /\ UNCHANGED <<sequential, cache, costmap, t_radius, t_result>>

\* result = inflation_layer->computeCost(...), or -1 without a layer
ComputeResult(t) ==
  /\ t_pc[t] = "miss"
  /\ t_result' = [t_result EXCEPT ![t] = CostFor(t_radius[t])]
  /\ t_pc' = [t_pc EXCEPT ![t] = "write_radius"]
  /\ UNCHANGED <<sequential, cache, costmap, t_radius, t_ret>>

\* circumscribed_radius_ = static_cast<float>(circum_radius);
WriteRadius(t) ==
  /\ t_pc[t] = "write_radius"
  /\ circumscribed_radius' = ToFloat(t_radius[t])
  /\ t_pc' = [t_pc EXCEPT ![t] = "write_cost"]
  /\ UNCHANGED <<sequential, circumscribed_cost, costmap, t_radius, t_result, t_ret>>

\* circumscribed_cost_ = static_cast<float>(result);
WriteCost(t) ==
  /\ t_pc[t] = "write_cost"
  /\ circumscribed_cost' = t_result[t]
  /\ t_pc' = [t_pc EXCEPT ![t] = "return"]
  /\ UNCHANGED <<sequential, circumscribed_radius, costmap, t_radius, t_result, t_ret>>

\* return circumscribed_cost_;   (the final return)
ReturnComputed(t) ==
  /\ t_pc[t] = "return"
  /\ t_ret' = [t_ret EXCEPT ![t] = circumscribed_cost]
  /\ t_pc' = [t_pc EXCEPT ![t] = "done"]
  /\ UNCHANGED <<sequential, cache, costmap, t_radius, t_result>>

\* The caller has its value and may call again.
Finish(t) ==
  /\ t_pc[t] = "done"
  /\ t_pc' = [t_pc EXCEPT ![t] = "idle"]
  /\ UNCHANGED <<sequential, cache, costmap, t_radius, t_result, t_ret>>

\* The footprint changes while calls are under way.
FootprintChangedConcurrently(r) ==
  /\ pc = "concurrent"
  /\ r # costmap_radius
  /\ costmap_radius' = r
  /\ UNCHANGED <<sequential, cache, inflation_present, costmap_tracking_unknown, threads>>

NextConcurrent ==
  \/ \E t \in Threads : ReadRadius(t)
  \/ \E t \in Threads : CompareRadius(t)
  \/ \E t \in Threads : ReturnCached(t)
  \/ \E t \in Threads : ComputeResult(t)
  \/ \E t \in Threads : WriteRadius(t)
  \/ \E t \in Threads : WriteCost(t)
  \/ \E t \in Threads : ReturnComputed(t)
  \/ \E t \in Threads : Finish(t)
  \/ \E r \in ConcurrentRadii : FootprintChangedConcurrently(r)

SpecConcurrent == InitConcurrent /\ [][NextConcurrent]_vars

-----------------------------------------------------------------------------
\* Vocabulary of the properties.

\* A score() call ran past the enabled_ test and its record is at hand.
Scored == pc = "scored" /\ last_score # None

Trajectory(i) == last_score.trajectories[i]

TrajLen(i) == Len(Trajectory(i))

\* The amount the call added to trajectory i's running cost.
Added(i) == RatSub(data_costs[i], last_score.costs_before[i])

\* The collision predicate answers true for sample s (with the members as
\* the call left them).
SampleCollides(s) ==
  /\ PoseCost(s) >= MinSignificantCost
  /\ InCollision(PoseCost(s), s.fp, consider_footprint, possible_collision_cost,
                 is_tracking_unknown)

Collided(i) == \E j \in 1..TrajLen(i) : SampleCollides(Trajectory(i)[j])

LethalSteps(i) ==
  {j \in 1..TrajLen(i) : Trajectory(i)[j].inGrid /\ Trajectory(i)[j].cost = LETHAL_OBSTACLE}

AllFree(i) ==
  \A j \in 1..TrajLen(i) : Trajectory(i)[j].inGrid /\ Trajectory(i)[j].cost = 0

\* Every sample is free, lethal or at/above the inscribed sentinel.
NoProximitySample(i) ==
  \A j \in 1..TrajLen(i) :
    \/ PoseCost(Trajectory(i)[j]) < MinSignificantCost
    \/ PoseCost(Trajectory(i)[j]) >= INSCRIBED_INFLATED_OBSTACLE

\* What the same call adds to trajectory i when the near-goal flag is near.
AddedIfNear(i, near) ==
  ScoreTerm(weight,
            RepulsiveCost(ScanTrajectory(Trajectory(i), 1, 0, consider_footprint,
                                         possible_collision_cost, is_tracking_unknown,
                                         critical_cost, near),
                          collision_cost),
            TrajLen(i), power)

-----------------------------------------------------------------------------
\* C1: after score() on an enabled critic the fail flag is true exactly when
\* every trajectory of the batch has a timestep on which the collision
\* predicate answers true, for every batch size (the empty batch included),
\* and the per-trajectory collision marks are those trajectories.
C1_FailFlagIffAllCollide ==
  Scored =>
    /\ fail_flag = (\A i \in DOMAIN last_score.trajectories : Collided(i))
    /\ \A i \in DOMAIN last_score.trajectories :
         last_score.trajectory_collide[i] = Collided(i)

C1_Witness ==
  /\ Scored
  /\ Len(last_score.trajectories) >= 2
  /\ \E i \in DOMAIN last_score.trajectories : Collided(i)
  /\ \E i \in DOMAIN last_score.trajectories : ~Collided(i)
  /\ ~fail_flag

C3_AsClaimed ==
  Scored =>
    \A i \in DOMAIN last_score.trajectories : AllFree(i) => Added(i) = RatInt(0)

\* C3 amended: a trajectory in free space is charged 0 for every power of at
\* least 1 and every weight, and 1 when the power is 0.
C3_FreeSpaceCost ==
  Scored =>
    \A i \in DOMAIN last_score.trajectories :
      AllFree(i) => Added(i) = (IF power = 0 THEN RatInt(1) ELSE RatInt(0))

C3_Witness ==
  /\ Scored
  /\ power >= 1
  /\ consider_footprint
  /\ possible_collision_cost < MinSignificantCost
  /\ \E i \in DOMAIN last_score.trajectories :
       TrajLen(i) >= 2 /\ AllFree(i) /\ Added(i) = RatInt(0)

\* C4: in footprint mode without an inflation source, a trajectory with a
\* pose whose footprint lies over a lethal cell is marked collided, whatever
\* the cost under the centre of the pose.
C4_FootprintCheckedEverywhere ==
  (Scored /\ consider_footprint /\ ~inflation_present
     /\ possible_collision_cost < MinSignificantCost) =>
    \A i \in DOMAIN last_score.trajectories :
      (\E j \in 1..TrajLen(i) : Trajectory(i)[j].fp = LETHAL_OBSTACLE)
        => last_score.trajectory_collide[i]

\* C5: a score() call on a disabled critic changes neither the caller's
\* costs and fail flag nor the cached radius, cost and collision threshold.
C5_DisabledNoOp ==
  [][(pc = "active" /\ pc' = "scored" /\ ~enabled) =>
       /\ data_costs' = data_costs
       /\ fail_flag' = fail_flag
       /\ circumscribed_radius' = circumscribed_radius
       /\ circumscribed_cost' = circumscribed_cost
       /\ possible_collision_cost' = possible_collision_cost]_vars

C5_Witness ==
  /\ pc = "scored"
  /\ ~enabled
  /\ consider_footprint
  /\ Len(data_costs) >= 2
  /\ fail_flag
  /\ ToFloat(costmap_radius) # circumscribed_radius

\* C6: a findCircumscribedCost() call that meets its radius in the cache
\* neither looks the inflation layer up nor evaluates it, and returns what
\* the call before it returned; the layer is looked up only by a call whose
\* radius differs from the cached one; with and without an inflation layer.
C6_CacheHitNoQuery ==
  last_find # None =>
    /\ ToFloat(last_find.observed) = last_find.cached_radius =>
         /\ ~last_find.lookup
         /\ ~last_find.computed
         /\ prev_ret # None => last_find.ret = prev_ret.ret
    /\ (last_find.lookup \/ last_find.computed) =>
         /\ last_find.observed # last_find.cached_radius
         /\ ToFloat(last_find.observed) # last_find.cached_radius

C6_Witness ==
  /\ last_find # None
  /\ prev_ret # None
  /\ ToFloat(last_find.observed) = last_find.cached_radius
  /\ ~last_find.lookup
  /\ ~inflation_present
  /\ last_find.ret = 0 - 1

\* C7: near the goal no trajectory is charged more than away from it, all
\* else equal, and a trajectory without a sample in the proximity band is
\* charged the same.
C7_NearGoalSuppression ==
  Scored =>
    \A i \in DOMAIN last_score.trajectories :
      /\ Added(i) = AddedIfNear(i, last_score.near_goal)
      /\ last_score.near_goal => RatLeq(Added(i), AddedIfNear(i, FALSE))
      /\ ~last_score.near_goal => RatLeq(AddedIfNear(i, TRUE), Added(i))
      /\ NoProximitySample(i) => Added(i) = AddedIfNear(i, ~last_score.near_goal)

C7_Witness ==
  /\ Scored
  /\ last_score.near_goal
  /\ power >= 1
  /\ \E i \in DOMAIN last_score.trajectories :
       /\ ~last_score.trajectory_collide[i]
       /\ ~NoProximitySample(i)
       /\ ~RatLeq(AddedIfNear(i, FALSE), Added(i))
  /\ \E i \in DOMAIN last_score.trajectories :
       /\ ~last_score.trajectory_collide[i]
       /\ NoProximitySample(i)
       /\ ~AllFree(i)

\* C8 as stated: the footprint checker replaces the cost when footprint mode
\* is off, or the cost reaches the threshold, or the threshold is unusable.
C8_AsClaimed ==
  last_check # None =>
    last_check.fp_called =
      (\/ ~consider_footprint
       \/ last_check.cost >= last_check.pcc
       \/ last_check.pcc < MinSignificantCost)

\* C8 amended: the footprint checker is consulted, and its cost classified
\* in place of the input cost, exactly when footprint mode is on and the
\* cost reaches the threshold or the threshold is unusable; otherwise the
\* input cost is classified and the checker is not consulted.
C8_FootprintGate ==
  last_check # None =>
    /\ last_check.fp_called =
         (consider_footprint /\ (\/ last_check.cost >= last_check.pcc
                                 \/ last_check.pcc < MinSignificantCost))
    /\ last_check.classified =
         (IF last_check.fp_called THEN last_check.fp ELSE last_check.cost)

C8_Witness ==
  /\ last_check # None
  /\ consider_footprint
  /\ last_check.cost = last_check.pcc
  /\ last_check.fp_called
  /\ last_check.classified # last_check.cost

\* C9: the classified cost is a collision by this table: lethal always,
\* inscribed exactly when footprint mode is off, unknown exactly when the
\* grid does not track unknown space, anything else never.
C9_SentinelTable ==
  last_check # None =>
    LET c == last_check.classified IN
      /\ c = 254 => last_check.result
      /\ c = 253 => (last_check.result = ~consider_footprint)
      /\ c = 255 => (last_check.result = ~last_check.tracking)
      /\ c \notin {253, 254, 255} => ~last_check.result

C9_Witness ==
  /\ last_check # None
  /\ consider_footprint
  /\ last_check.fp_called
  /\ last_check.classified = 253
  /\ ~last_check.result

\* C10: under concurrent calls every call returns the cost of the radius it
\* observed, and between calls the cache pairs a radius with its own cost.
C10_CacheUpdateAtomic ==
  /\ \A t \in Threads : t_pc[t] = "done" => t_ret[t] = CostFor(t_radius[t])
  /\ ((\A t \in Threads : t_pc[t] = "idle") /\ circumscribed_radius # 0) =>
       circumscribed_cost = CostFor(circumscribed_radius)

====
